---- MODULE Spec2Model ----
(***************************************************************************)
(* Workflow state of the resume analysis pipeline                          *)
(* (states/ResumeAnalysisState.py): the state factory, the transition      *)
(* validator and the progress calculator, driven by an orchestrator that   *)
(* changes current_step only through transitions the validator accepts;    *)
(* and the collaborators of the pipeline: the file validator               *)
(* (utils/utilities.py) and the language-model and search client           *)
(* (core/llm.py).                                                          *)
(*                                                                         *)
(* Python values: a str is a TLA+ string, a list is a sequence, a dict is  *)
(* a function on its keys, an Optional[T] is None or Some(v).  The step    *)
(* percentages 0.0 .. 100.0 are all whole and are modelled as integers.    *)
(***************************************************************************)
EXTENDS Integers, Sequences, FiniteSets

VARIABLES
    state,   \* the ResumeAnalysisState threaded through the workflow
    trace,   \* the values current_step has taken in this run, oldest first
    inputs,  \* the strings the validator and the calculator are called with
    call,    \* the latest call of a module function: name, arguments, result
    heap,      \* the list objects the factory calls have allocated, by address
    instances, \* the states separate factory calls returned; a list field
               \* holds the address of its list object
    env        \* what surrounds a collaborator call: the file on disk, the
               \* configured clients, what the model and the search services do

vars == <<state, trace, inputs, call, heap, instances, env>>

---------------------------------------------------------------------------
(* Python helpers *)

None == [some |-> FALSE]

Some(v) == [some |-> TRUE, value |-> v]

\* the elements of a list
Range(list) == {list[i] : i \in DOMAIN list}

\* dict.get(key, default)
Get(dict, key, default) == IF key \in DOMAIN dict THEN dict[key] ELSE default

---------------------------------------------------------------------------
(* Bounds and inputs *)

\* the longest run the orchestrator is followed for (steps recorded in trace)
MaxRunLen == 12

\* the most items held by all the lists of all the states together
MaxItems == 2

\* the calls of the factory: the documented one (a path and no targeting
\* field), one with every field given (an unsupported extension in a missing
\* directory), and two with some fields given (one with the empty path)
FactoryArgs ==
    { [ uploaded_file_path |-> "resume.pdf",
        target_job_title   |-> None,
        target_industry    |-> None,
        target_location    |-> None,
        experience_level   |-> None ],
      [ uploaded_file_path |-> "no/such/dir/cv.exe",
        target_job_title   |-> Some("Data Engineer"),
        target_industry    |-> Some("Finance"),
        target_location    |-> Some("Berlin"),
        experience_level   |-> Some("senior") ],
      [ uploaded_file_path |-> "",
        target_job_title   |-> Some("Data Engineer"),
        target_industry    |-> None,
        target_location    |-> Some("Berlin"),
        experience_level   |-> None ],
      [ uploaded_file_path |-> "resume.pdf",
        target_job_title   |-> None,
        target_industry    |-> Some("Finance"),
        target_location    |-> None,
        experience_level   |-> Some("senior") ] }

\* readings of datetime.now(): the date and time to the second, as isoformat
\* writes it, and the microsecond
ClockReadings ==
    { [date_time |-> "2025-01-01T09:00:00", microsecond |-> 0],
      [date_time |-> "2025-01-01T09:00:01", microsecond |-> 250000] }

DecimalDigits == <<"0", "1", "2", "3", "4", "5", "6", "7", "8", "9">>

\* n in decimal, padded with zeros to width digits
RECURSIVE ZeroPad(_, _)
ZeroPad(n, width) ==
    IF width = 0
    THEN ""
    ELSE ZeroPad(n \div 10, width - 1) \o DecimalDigits[(n % 10) + 1]

\* datetime.isoformat(): the fraction is left out when microsecond is 0
isoformat(t) ==
    IF t.microsecond = 0
    THEN t.date_time
    ELSE t.date_time \o "." \o ZeroPad(t.microsecond, 6)

\* values of datetime.now().isoformat()
IsoTimestamps == {isoformat(t) : t \in ClockReadings}

\* step names that occur in neither table of the module
UnknownSteps == {"", "Completed", "unknown_step"}

---------------------------------------------------------------------------
(* State factory *)

\* Mutant: target_industry filled from the wrong argument.
create_initial_state_wrong_argument(uploaded_file_path, target_job_title, target_industry, target_location, experience_level, now) ==
    [ messages                    |-> <<>>,
      uploaded_file_path          |-> Some(uploaded_file_path),
      target_job_title            |-> target_job_title,
      target_industry             |-> target_job_title,
      target_location             |-> target_location,
      experience_level            |-> experience_level,
      resume_data                 |-> None,
      parsing_errors              |-> <<>>,
      file_format                 |-> None,
      parsing_confidence          |-> None,
      matching_jobs               |-> <<>>,
      job_search_errors           |-> <<>>,
      search_query_used           |-> None,
      total_jobs_found            |-> 0,
      ats_scores                  |-> <<>>,
      average_ats_score           |-> None,
      best_ats_match              |-> None,
      improvement_recommendations |-> <<>>,
      resume_enhancements         |-> None,
      personalized_tips           |-> <<>>,
      priority_improvements       |-> <<>>,
      current_step                |-> "initialized",
      errors                      |-> <<>>,
      warnings                    |-> <<>>,
      is_complete                 |-> FALSE,
      processing_time_seconds     |-> None,
      workflow_version            |-> Some("1.0.0"),
      timestamp_started           |-> Some(now),
      timestamp_completed         |-> None,
      user_id                     |-> None ]

\* `now` is the reading of datetime.now().isoformat() the call makes.
create_initial_state(uploaded_file_path, target_job_title, target_industry, target_location, experience_level, now) ==
    [ messages                    |-> <<>>,
      uploaded_file_path          |-> Some(uploaded_file_path),
      target_job_title            |-> target_job_title,
      target_industry             |-> target_industry,
      target_location             |-> target_location,
      experience_level            |-> experience_level,
      resume_data                 |-> None,
      parsing_errors              |-> <<>>,
      file_format                 |-> None,
      parsing_confidence          |-> None,
      matching_jobs               |-> <<>>,
      job_search_errors           |-> <<>>,
      search_query_used           |-> None,
      total_jobs_found            |-> 0,
      ats_scores                  |-> <<>>,
      average_ats_score           |-> None,
      best_ats_match              |-> None,
      improvement_recommendations |-> <<>>,
      resume_enhancements         |-> None,
      personalized_tips           |-> <<>>,
      priority_improvements       |-> <<>>,
      current_step                |-> "initialized",
      errors                      |-> <<>>,
      warnings                    |-> <<>>,
      is_complete                 |-> FALSE,
      processing_time_seconds     |-> None,
      workflow_version            |-> Some("1.0.0"),
      timestamp_started           |-> Some(now),
      timestamp_completed         |-> None,
      user_id                     |-> None ]

---------------------------------------------------------------------------
(* Transition validator *)

\* Mutant: an escape-to-error edge added to a step that has none.
valid_transitions_extra_escape ==
    [ initialized       |-> <<"parsing_resume">>,
      parsing_resume    |-> <<"resume_parsed", "error">>,
      resume_parsed     |-> <<"searching_jobs", "error">>,
      searching_jobs    |-> <<"jobs_found", "error">>,
      jobs_found        |-> <<"scoring_ats">>,
      scoring_ats       |-> <<"ats_scored", "error">>,
      ats_scored        |-> <<"generating_advice">>,
      generating_advice |-> <<"completed", "error">>,
      error             |-> <<"retry", "completed">>,
      completed         |-> <<>> ]

\* Mutant: "retry" given a row of its own, restarting the run.
valid_transitions_retry_restarts ==
    [ initialized       |-> <<"parsing_resume">>,
      parsing_resume    |-> <<"resume_parsed", "error">>,
      resume_parsed     |-> <<"searching_jobs">>,
      searching_jobs    |-> <<"jobs_found", "error">>,
      jobs_found        |-> <<"scoring_ats">>,
      scoring_ats       |-> <<"ats_scored", "error">>,
      ats_scored        |-> <<"generating_advice">>,
      generating_advice |-> <<"completed", "error">>,
      error             |-> <<"retry", "completed">>,
      completed         |-> <<>>,
      retry             |-> <<"initialized">> ]

\* Mutant: "completed" left with a way out.
valid_transitions_completed_reopens ==
    [ initialized       |-> <<"parsing_resume">>,
      parsing_resume    |-> <<"resume_parsed", "error">>,
      resume_parsed     |-> <<"searching_jobs">>,
      searching_jobs    |-> <<"jobs_found", "error">>,
      jobs_found        |-> <<"scoring_ats">>,
      scoring_ats       |-> <<"ats_scored", "error">>,
      ats_scored        |-> <<"generating_advice">>,
      generating_advice |-> <<"completed", "error">>,
      error             |-> <<"retry", "completed">>,
      completed         |-> <<"retry">> ]

\* Mutant: a target misspelt.
valid_transitions_misspelt_target ==
    [ initialized       |-> <<"parsing_resume">>,
      parsing_resume    |-> <<"resume_parsed", "error">>,
      resume_parsed     |-> <<"searching_jobs">>,
      searching_jobs    |-> <<"jobs_found", "error">>,
      jobs_found        |-> <<"scoring_ats">>,
      scoring_ats       |-> <<"ats_scored", "error">>,
      ats_scored        |-> <<"generating_advise">>,
      generating_advice |-> <<"completed", "error">>,
      error             |-> <<"retry", "completed">>,
      completed         |-> <<>> ]

valid_transitions ==
    [ initialized       |-> <<"parsing_resume">>,
      parsing_resume    |-> <<"resume_parsed", "error">>,
      resume_parsed     |-> <<"searching_jobs">>,
      searching_jobs    |-> <<"jobs_found", "error">>,
      jobs_found        |-> <<"scoring_ats">>,
      scoring_ats       |-> <<"ats_scored", "error">>,
      ats_scored        |-> <<"generating_advice">>,
      generating_advice |-> <<"completed", "error">>,
      error             |-> <<"retry", "completed">>,
      completed         |-> <<>> ]

\* valid_transitions.get(from_step, []): the steps permitted after from_step
PermittedNext(from_step) == Range(Get(valid_transitions, from_step, <<>>))

validate_state_transition(from_step, to_step) ==
    to_step \in PermittedNext(from_step)

---------------------------------------------------------------------------
(* Progress calculator *)

\* Mutant: one percentage mistyped (jobs_found below searching_jobs).
step_progress_mistyped ==
    [ initialized       |-> 0,
      parsing_resume    |-> 10,
      resume_parsed     |-> 25,
      searching_jobs    |-> 40,
      jobs_found        |-> 30,
      scoring_ats       |-> 75,
      ats_scored        |-> 85,
      generating_advice |-> 95,
      completed         |-> 100,
      error             |-> 0 ]

\* Mutant: "error" reported as half way.
step_progress_error_half ==
    [ initialized       |-> 0,
      parsing_resume    |-> 10,
      resume_parsed     |-> 25,
      searching_jobs    |-> 40,
      jobs_found        |-> 60,
      scoring_ats       |-> 75,
      ats_scored        |-> 85,
      generating_advice |-> 95,
      completed         |-> 100,
      error             |-> 50 ]

\* Mutant: "generating_advice" already reported as finished.
step_progress_advice_done ==
    [ initialized       |-> 0,
      parsing_resume    |-> 10,
      resume_parsed     |-> 25,
      searching_jobs    |-> 40,
      jobs_found        |-> 60,
      scoring_ats       |-> 75,
      ats_scored        |-> 85,
      generating_advice |-> 100,
      completed         |-> 100,
      error             |-> 0 ]

step_progress ==
    [ initialized       |-> 0,
      parsing_resume    |-> 10,
      resume_parsed     |-> 25,
      searching_jobs    |-> 40,
      jobs_found        |-> 60,
      scoring_ats       |-> 75,
      ats_scored        |-> 85,
      generating_advice |-> 95,
      completed         |-> 100,
      error             |-> 0 ]

\* Mutant: an unrecognised step reported as finished.
get_state_progress_percentage_unknown_done(current_step) ==
    Get(step_progress, current_step, 100)

get_state_progress_percentage(current_step) ==
    Get(step_progress, current_step, 0)

---------------------------------------------------------------------------
(* The strings the functions are called with: every name either table
   mentions, as a key or as a target, and the unknown ones *)

TableSteps ==
    DOMAIN valid_transitions
        \cup UNION {Range(valid_transitions[k]) : k \in DOMAIN valid_transitions}
        \cup DOMAIN step_progress

StepInputs == TableSteps \cup UnknownSteps

---------------------------------------------------------------------------
(* Operations *)

\* A new analysis request: the factory builds the state of the run.  The
\* strings the validator and the calculator will be called with are drawn here.
Init ==
    \E a \in FactoryArgs, now \in IsoTimestamps :
        /\ call = [ fn     |-> "create_initial_state",
                    args   |-> a,
                    now    |-> now,
                    result |-> create_initial_state(
                                   a.uploaded_file_path, a.target_job_title,
                                   a.target_industry, a.target_location,
                                   a.experience_level, now) ]
        /\ state = call.result
        /\ trace = <<state.current_step>>
        /\ inputs \in [from_step : StepInputs, to_step : StepInputs]
        /\ heap = <<>>
        /\ instances = <<>>
        /\ env = None

\* A stage proposes the next step; the orchestrator writes it only when the
\* validator accepts the change from the current step.
Transition(to_step) ==
    /\ Len(trace) < MaxRunLen
    /\ validate_state_transition(state.current_step, to_step)
    /\ state' = [state EXCEPT !.current_step = to_step]
    /\ trace' = Append(trace, to_step)
    /\ UNCHANGED <<call, inputs, heap, instances, env>>

\* Mutant: the validator writes the step it has just accepted.
ValidateCall_applies_transition ==
    /\ call' = [ fn     |-> "validate_state_transition",
                 args   |-> inputs,
                 result |-> validate_state_transition(inputs.from_step,
                                                      inputs.to_step) ]
    /\ state' = IF call'.result
                THEN [state EXCEPT !.current_step = inputs.to_step]
                ELSE state
    /\ UNCHANGED <<trace, inputs, heap, instances, env>>

\* validate_state_transition called on two strings.
ValidateCall ==
    /\ call' = [ fn     |-> "validate_state_transition",
                 args   |-> inputs,
                 result |-> validate_state_transition(inputs.from_step,
                                                      inputs.to_step) ]
    /\ UNCHANGED <<state, trace, inputs, heap, instances, env>>

\* get_state_progress_percentage called on a string.
ProgressCall ==
    /\ call' = [ fn     |-> "get_state_progress_percentage",
                 args   |-> [current_step |-> inputs.from_step],
                 result |-> get_state_progress_percentage(inputs.from_step) ]
    /\ UNCHANGED <<state, trace, inputs, heap, instances, env>>

Next ==
    \/ \E to_step \in StepInputs : Transition(to_step)
    \/ ValidateCall
    \/ ProgressCall

Spec == Init /\ [][Next]_vars

\* One run left to the orchestrator alone: it keeps taking a transition the
\* validator accepts for as long as there is one.
RunInit ==
    /\ Init
    /\ inputs = [from_step |-> "initialized", to_step |-> "parsing_resume"]

RunNext == \E to_step \in StepInputs : Transition(to_step)

SpecRun == RunInit /\ [][RunNext]_vars /\ WF_vars(RunNext)

---------------------------------------------------------------------------
(* Separate factory calls and the list objects they allocate *)

\* the list-valued fields, in the order the factory evaluates their `[]`
ListFields ==
    << "messages", "parsing_errors", "matching_jobs", "job_search_errors",
       "ats_scores", "improvement_recommendations", "personalized_tips",
       "priority_improvements", "errors", "warnings" >>

\* Mutant: the i-th list field gets one list object made once for all calls.
NewList_shared_default(h, i) == i

\* the address of the list object the i-th `[]` of a factory call evaluates
\* to, in a heap h: a new object at every evaluation
NewList(h, i) == Len(h) + i

\* the place of a list field among the list fields
FieldIndex(f) == CHOOSE i \in DOMAIN ListFields : ListFields[i] = f

\* the heap h after a factory call that returns s has made its lists
AllocateLists(h, s) == h \o [i \in DOMAIN ListFields |-> s[ListFields[i]]]

\* the returned state s as the caller holds it: a list field is a reference
ReturnedState(h, s) ==
    [f \in DOMAIN s |->
        IF f \in Range(ListFields) THEN NewList(h, FieldIndex(f)) ELSE s[f]]

\* what state k reads as: every list field followed to its list
View(k) ==
    [f \in DOMAIN instances[k] |->
        IF f \in Range(ListFields) THEN heap[instances[k][f]]
        ELSE instances[k][f]]

RECURSIVE ItemCount(_)
\* the items held by the lists of a heap
ItemCount(h) == IF h = <<>> THEN 0 ELSE Len(Head(h)) + ItemCount(Tail(h))

\* the factory calls made side by side: the documented path, with and
\* without targeting fields
InstanceArgs == {a \in FactoryArgs : a.uploaded_file_path = "resume.pdf"}

\* Two separate calls of create_initial_state, one after the other; each
\* reads the clock itself.
InstancesInit ==
    /\ \E a1 \in InstanceArgs, a2 \in InstanceArgs, now1 \in IsoTimestamps, now2 \in IsoTimestamps :
           LET s1 == create_initial_state(
                         a1.uploaded_file_path, a1.target_job_title,
                         a1.target_industry, a1.target_location,
                         a1.experience_level, now1)
               s2 == create_initial_state(
                         a2.uploaded_file_path, a2.target_job_title,
                         a2.target_industry, a2.target_location,
                         a2.experience_level, now2)
               h1 == AllocateLists(<<>>, s1)
           IN  /\ instances = <<ReturnedState(<<>>, s1), ReturnedState(h1, s2)>>
               /\ heap = AllocateLists(h1, s2)
    /\ state = None
    /\ trace = <<>>
    /\ inputs = None
    /\ call = None
    /\ env = None

\* state k's list field f .append(item)
AppendItem(k, f, item) ==
    /\ ItemCount(heap) < MaxItems
    /\ heap' = [heap EXCEPT ![instances[k][f]] = Append(@, item)]
    /\ UNCHANGED <<instances, state, trace, inputs, call, env>>

\* state k's list field f .clear()
ClearList(k, f) ==
    /\ heap' = [heap EXCEPT ![instances[k][f]] = <<>>]
    /\ UNCHANGED <<instances, state, trace, inputs, call, env>>

InstancesNext ==
    \/ \E k \in DOMAIN instances, f \in Range(ListFields) :
           AppendItem(k, f, "item")
    \/ \E k \in DOMAIN instances, f \in Range(ListFields) : ClearList(k, f)

SpecInstances == InstancesInit /\ [][InstancesNext]_vars

---------------------------------------------------------------------------
(* Python strings and calls of the collaborators *)

\* A str built by the code: the literal or f-string template of the source
\* and the values put into it.  A file path is a sequence of characters, so
\* that lower() and os.path.splitext can work on it.
Fmt(template, args) == [template |-> template, args |-> args]

\* a str the code does not build: a literal, or text taken as it comes
Text(s) == Fmt(s, <<>>)

\* how a call ends: it returns a value or lets an exception out; events are
\* the calls it made to the file system and to the services, in order
Return(value, events) == [raised |-> FALSE, value |-> value, events |-> events]

Raise(exc, events) ==
    [raised |-> TRUE, value |-> None, exc |-> exc, events |-> events]

Event(name, returned) == [call |-> name, returned |-> returned]

\* obj.name: the attribute, or AttributeError
GetAttr(obj, name) ==
    IF name \in DOMAIN obj
    THEN [raised |-> FALSE, value |-> obj[name]]
    ELSE [raised |-> TRUE, exc |-> "AttributeError"]

UpperToLower ==
    [ A |-> "a", B |-> "b", C |-> "c", D |-> "d", E |-> "e", F |-> "f",
      G |-> "g", H |-> "h", I |-> "i", J |-> "j", K |-> "k", L |-> "l",
      M |-> "m", N |-> "n", O |-> "o", P |-> "p", Q |-> "q", R |-> "r",
      S |-> "s", T |-> "t", U |-> "u", V |-> "v", W |-> "w", X |-> "x",
      Y |-> "y", Z |-> "z" ]

\* str.lower()
Lower(str) == [i \in DOMAIN str |-> Get(UpperToLower, str[i], str[i])]

\* str.rfind(ch), counting from 1; 0 when ch does not occur
RFind(str, ch) ==
    IF \E i \in DOMAIN str : str[i] = ch
    THEN CHOOSE i \in DOMAIN str :
             str[i] = ch /\ \A j \in DOMAIN str : str[j] = ch => j <= i
    ELSE 0

\* os.path.splitext(path)[1]: from the last dot of the last path component,
\* unless that component has nothing but dots before it
SplitExt(path) ==
    LET sep == RFind(path, "/")
        dot == RFind(path, ".")
    IN  IF dot > sep /\ \E i \in sep + 1 .. dot - 1 : path[i] # "."
        THEN SubSeq(path, dot, Len(path))
        ELSE <<>>

---------------------------------------------------------------------------
(* What surrounds a collaborator call *)

\* ChatOpenAI.invoke's return value when the model answers
AIMessage == [content |-> Text("<model response>"), type |-> "ai"]

\* the paths the collaborators are called with
PathInputs ==
    { <<"c", "v", ".", "p", "d", "f">>, <<"C", "V", ".", "P", "D", "F">>, <<"a", ".", "d", "o", "c", "x">>, 
      <<"n", ".", "t", "x", "t">>, <<"c", "v", ".", "e", "x", "e">>, <<"c", "v">>, <<".", "p", "d", "f">>, 
      <<"d", ".", "p", "d", "f", "/", "c", "v">> }

\* sizes in bytes of the file at the path: empty, 5 MB to the byte, one more
FileSizes == {0, 5 * (1024 * 1024), 5 * (1024 * 1024) + 1}

\* max_size_mb of validate_file: its default (line 5)
DefaultMaxSizeMb == 5

\* the directories on the way to path: what stands before each separator
ParentDirs(path) == {SubSeq(path, 1, i - 1) : i \in {j \in DOMAIN path : j > 1 /\ path[j] = "/"}}

\* sizes in bytes the file system reports for a directory (tmpfs, ext4)
DirSizes == {60, 4096}

EnvironmentRecords ==
    [ file_path      : PathInputs,
      \* the file at file_path: None when there is none
      file           : {None} \cup {Some([size |-> n]) : n \in FileSizes},
      \* the size of the directories that hold the file
      dir_size       : DirSizes,
      \* max_size_mb of a direct call of validate_file
      max_size_mb    : {1, DefaultMaxSizeMb},
      \* whether `from utils.simple_utils import validate_file` finds the module
      import_ok      : BOOLEAN,
      \* whether open(file_path, 'rb') and read() succeed
      read_ok        : BOOLEAN,
      \* what ChatOpenAI.invoke does
      llm            : {"responds", "raises"},
      \* whether __init__ found the API keys and made the clients
      tavily_client  : BOOLEAN,
      serper_wrapper : BOOLEAN,
      \* what the search service does
      search         : {"results", "empty", "raises"} ]

\* the environments that differ in something a call can read: where there is
\* no directory, its size is left at one value
Environments ==
    { e \in EnvironmentRecords :
          (e.file = None \/ ParentDirs(e.file_path) = {}) => e.dir_size = 4096 }

\* os.path.exists: the file, when it is there, and the directories that hold it
os_path_exists(file_path) ==
    /\ env.file # None
    /\ file_path = env.file_path \/ file_path \in ParentDirs(env.file_path)

\* os.path.getsize of a path that exists
os_path_getsize(file_path) ==
    IF file_path = env.file_path THEN env.file.value.size ELSE env.dir_size

\* open(file_path, 'rb') and read(): a directory cannot be opened
open_read(file_path) == file_path = env.file_path /\ env.read_ok

---------------------------------------------------------------------------
(* utils/utilities.py *)

allowed_extensions == << <<".", "p", "d", "f">>, <<".", "d", "o", "c", "x">>, <<".", "t", "x", "t">> >>

\* Mutant: a file of exactly max_size_mb is turned away.
FileTooLarge_at_limit(file_size_bytes, max_size_mb) ==
    file_size_bytes >= max_size_mb * (1024 * 1024)

\* file_size_mb > max_size_mb, with file_size_mb = bytes / (1024 * 1024)
FileTooLarge(file_size_bytes, max_size_mb) ==
    file_size_bytes > max_size_mb * (1024 * 1024)

\* Mutant: the extension is compared as written, not lower-cased.
FileExt_as_written(file_path) == SplitExt(file_path)

\* os.path.splitext(file_path.lower())[1]
FileExt(file_path) == SplitExt(Lower(file_path))

\* returns (is_valid, error_message)
validate_file(file_path, max_size_mb) ==
    IF ~os_path_exists(file_path)
    THEN Return(<<FALSE, Some(Text("File does not exist"))>>,
                <<Event("os.path.exists", FALSE)>>)
    ELSE LET size == os_path_getsize(file_path)
             events == << Event("os.path.exists", TRUE),
                          Event("os.path.getsize", size) >>
         IN  IF FileTooLarge(size, max_size_mb)
             THEN Return(<<FALSE,
                           Some(Fmt("File too large: {file_size_mb:.1f}MB (max: {max_size_mb}MB)",
                                    <<size, max_size_mb>>))>>,
                         events)
             ELSE IF FileExt(file_path) \notin Range(allowed_extensions)
             THEN Return(<<FALSE,
                           Some(Fmt("Unsupported file type: {file_ext}. Allowed: {allowed_extensions}",
                                    <<FileExt(file_path), allowed_extensions>>))>>,
                         events)
             ELSE Return(<<TRUE, None>>, events)

---------------------------------------------------------------------------
(* core/llm.py: LLMClient *)

\* Mutant: the file is read first and validated afterwards.
chat_with_file_reads_first(prompt, file_path) ==
    IF ~env.import_ok
    THEN Return(Fmt("Error with LLM: {str(e)}", <<"ModuleNotFoundError">>), <<>>)
    ELSE
    LET opened    == <<Event("open", open_read(file_path))>>
        checked   == validate_file(file_path, DefaultMaxSizeMb)
        is_valid  == checked.value[1]
        error_msg == checked.value[2]
        validated == Append(opened, Event("validate_file", is_valid))
        file_ext  == SplitExt(Lower(file_path))
        invoked   == Append(validated, Event("llm.invoke", env.llm))
    IN  IF ~open_read(file_path)
        THEN Return(Fmt("Error with LLM: {str(e)}", <<"OSError">>), opened)
        ELSE IF ~is_valid
        THEN Return(Fmt("File validation error: {error_msg}", <<error_msg>>),
                    validated)
        ELSE IF file_ext # <<".", "p", "d", "f">> /\ file_ext # <<".", "t", "x", "t">>
        THEN Return(Fmt("File type {file_ext} is not directly supported by OpenAI API",
                        <<file_ext>>),
                    validated)
        ELSE IF env.llm = "raises"
        THEN Return(Fmt("Error with LLM: {str(e)}", <<"Exception">>), invoked)
        ELSE Return(AIMessage.content, invoked)

\* LLMClient.chat_with_file(prompt, file_path)
chat_with_file(prompt, file_path) ==
    IF ~env.import_ok
    THEN Return(Fmt("Error with LLM: {str(e)}", <<"ModuleNotFoundError">>), <<>>)
    ELSE
    LET checked   == validate_file(file_path, DefaultMaxSizeMb)
        is_valid  == checked.value[1]
        error_msg == checked.value[2]
        validated == <<Event("validate_file", is_valid)>>
        opened    == Append(validated, Event("open", open_read(file_path)))
        file_ext  == SplitExt(Lower(file_path))
        invoked   == Append(opened, Event("llm.invoke", env.llm))
    IN  IF ~is_valid
        THEN Return(Fmt("File validation error: {error_msg}", <<error_msg>>),
                    validated)
        ELSE IF ~open_read(file_path)
        THEN Return(Fmt("Error with LLM: {str(e)}", <<"OSError">>), opened)
        ELSE IF file_ext # <<".", "p", "d", "f">> /\ file_ext # <<".", "t", "x", "t">>
        THEN Return(Fmt("File type {file_ext} is not directly supported by OpenAI API",
                        <<file_ext>>),
                    opened)
        ELSE IF env.llm = "raises"
        THEN Return(Fmt("Error with LLM: {str(e)}", <<"Exception">>), invoked)
        ELSE Return(AIMessage.content, invoked)

\* LLMClient.chat(prompt)
chat(prompt) ==
    LET invoked == <<Event("llm.invoke", env.llm)>>
    IN  IF env.llm = "raises"
        THEN Return(Fmt("Error with LLM: {str(e)}", <<"Exception">>), invoked)
        ELSE LET contents == GetAttr(AIMessage, "contents")
             IN  IF contents.raised
                 THEN Return(Fmt("Error with LLM: {str(e)}", <<contents.exc>>),
                             invoked)
                 ELSE Return(contents.value, invoked)

\* LLMClient._search_with_tavily(query, max_results)
search_with_tavily(query, max_results) ==
    IF ~env.tavily_client
    THEN Return(Fmt("Tavily search error: {str(e)}", <<"AttributeError">>), <<>>)
    ELSE LET searched == <<Event("tavily_client.search", env.search)>>
         IN  IF env.search = "raises"
             THEN Return(Fmt("Tavily search error: {str(e)}", <<"Exception">>),
                         searched)
             ELSE IF env.search = "empty"
             THEN Return(Text("No job results found"), searched)
             ELSE Return(Fmt("{formatted_results}", <<"<results>">>), searched)

\* Mutant: the call of the search wrapper stands outside the try.
search_with_serper_unguarded(query) ==
    IF ~env.serper_wrapper
    THEN Raise("AttributeError", <<>>)
    ELSE LET searched == <<Event("serper_wrapper.run", env.search)>>
         IN  IF env.search = "raises"
             THEN Raise("Exception", searched)
             ELSE IF env.search = "empty"
             THEN Return(Text("No job results found"), searched)
             ELSE Return(Text("<results>"), searched)

\* LLMClient._search_with_serper(query)
search_with_serper(query) ==
    IF ~env.serper_wrapper
    THEN Return(Fmt("Serper search error: {str(e)}", <<"AttributeError">>), <<>>)
    ELSE LET searched == <<Event("serper_wrapper.run", env.search)>>
         IN  IF env.search = "raises"
             THEN Return(Fmt("Serper search error: {str(e)}", <<"Exception">>),
                         searched)
             ELSE IF env.search = "empty"
             THEN Return(Text("No job results found"), searched)
             ELSE Return(Text("<results>"), searched)

\* LLMClient.search_jobs(query, max_results)
search_jobs(query, max_results) ==
    IF env.tavily_client THEN search_with_tavily(query, max_results)
    ELSE IF env.serper_wrapper THEN search_with_serper(query)
    ELSE Return(Text("No search API available"), <<>>)

---------------------------------------------------------------------------
(* Calls of the collaborators *)

\* the call as the caller sees it
Called(fn, args, outcome) ==
    [ fn     |-> fn,
      args   |-> args,
      raised |-> outcome.raised,
      result |-> outcome.value,
      events |-> outcome.events ]

CollabInit ==
    /\ env \in Environments
    /\ call = None
    /\ state = None
    /\ trace = <<>>
    /\ inputs = None
    /\ heap = <<>>
    /\ instances = <<>>

\* validate_file called on the path of the environment or on a directory of it
ValidateFileCall ==
    /\ \E file_path \in {env.file_path} \cup ParentDirs(env.file_path) :
           call' = Called("validate_file",
                          [file_path |-> file_path, max_size_mb |-> env.max_size_mb],
                          validate_file(file_path, env.max_size_mb))
    /\ UNCHANGED <<env, state, trace, inputs, heap, instances>>

ChatWithFileCall ==
    /\ call' = Called("chat_with_file",
                      [prompt |-> "Summarise this resume", file_path |-> env.file_path],
                      chat_with_file("Summarise this resume", env.file_path))
    /\ UNCHANGED <<env, state, trace, inputs, heap, instances>>

ChatCall ==
    /\ call' = Called("chat", [prompt |-> "Hello"], chat("Hello"))
    /\ UNCHANGED <<env, state, trace, inputs, heap, instances>>

SearchJobsCall ==
    /\ call' = Called("search_jobs",
                      [query |-> "Data Engineer remote jobs", max_results |-> 10],
                      search_jobs("Data Engineer remote jobs", 10))
    /\ UNCHANGED <<env, state, trace, inputs, heap, instances>>

SearchWithTavilyCall ==
    /\ call' = Called("_search_with_tavily",
                      [query |-> "Data Engineer remote jobs", max_results |-> 10],
                      search_with_tavily("Data Engineer remote jobs", 10))
    /\ UNCHANGED <<env, state, trace, inputs, heap, instances>>

SearchWithSerperCall ==
    /\ call' = Called("_search_with_serper",
                      [query |-> "Data Engineer remote jobs"],
                      search_with_serper("Data Engineer remote jobs"))
    /\ UNCHANGED <<env, state, trace, inputs, heap, instances>>

CollabNext ==
    \/ ValidateFileCall
    \/ ChatWithFileCall
    \/ ChatCall
    \/ SearchJobsCall
    \/ SearchWithTavilyCall
    \/ SearchWithSerperCall

SpecCollab == CollabInit /\ [][CollabNext]_vars

---------------------------------------------------------------------------
(* What the specification says, written out independently of the code *)

\* the transition table of the specification, edge by edge (14 pairs)
SpecEdges ==
    { <<"initialized", "parsing_resume">>,
      <<"parsing_resume", "resume_parsed">>, <<"parsing_resume", "error">>,
      <<"resume_parsed", "searching_jobs">>,
      <<"searching_jobs", "jobs_found">>, <<"searching_jobs", "error">>,
      <<"jobs_found", "scoring_ats">>,
      <<"scoring_ats", "ats_scored">>, <<"scoring_ats", "error">>,
      <<"ats_scored", "generating_advice">>,
      <<"generating_advice", "completed">>, <<"generating_advice", "error">>,
      <<"error", "retry">>, <<"error", "completed">> }

\* the `From` column of that table
SpecTableKeys ==
    { "initialized", "parsing_resume", "resume_parsed", "searching_jobs",
      "jobs_found", "scoring_ats", "ats_scored", "generating_advice",
      "error", "completed" }

\* the step names the specification lists for the progress calculator
SpecProgressSteps ==
    { "initialized", "parsing_resume", "resume_parsed", "searching_jobs",
      "jobs_found", "scoring_ats", "ats_scored", "generating_advice",
      "completed", "error" }

\* the percentages the specification lists; anything else is 0
SpecProgress(step) ==
    CASE step = "initialized"       -> 0
      [] step = "parsing_resume"    -> 10
      [] step = "resume_parsed"     -> 25
      [] step = "searching_jobs"    -> 40
      [] step = "jobs_found"        -> 60
      [] step = "scoring_ats"       -> 75
      [] step = "ats_scored"        -> 85
      [] step = "generating_advice" -> 95
      [] step = "completed"         -> 100
      [] step = "error"             -> 0
      [] OTHER                      -> 0

\* the canonical success path
CanonicalPath ==
    << "initialized", "parsing_resume", "resume_parsed", "searching_jobs",
       "jobs_found", "scoring_ats", "ats_scored", "generating_advice",
       "completed" >>

ValidatorCalled == call.fn = "validate_state_transition"

ProgressCalled == call.fn = "get_state_progress_percentage"

FactoryCalled == call.fn = "create_initial_state"

\* the steps some validated path of at most n transitions leads to from S
RECURSIVE ReachableWithin(_, _)
ReachableWithin(S, n) ==
    IF n = 0 THEN S
    ELSE ReachableWithin(S \cup UNION {PermittedNext(x) : x \in S}, n - 1)

\* the steps reachable from "initialized" by validated transitions
ReachableSteps == ReachableWithin({"initialized"}, Cardinality(TableSteps))

\* the steps that appear as the target of some transition
TargetSteps == UNION {PermittedNext(k) : k \in TableSteps}

---------------------------------------------------------------------------
(* Claims *)

\* the pairs of input strings the validator accepts
AcceptedPairs ==
    {p \in StepInputs \X StepInputs : validate_state_transition(p[1], p[2])}

\* C1 as stated: validate_state_transition(from, to) is true exactly when
\* (from, to) is one of the edges of the specification's table, false for
\* every other pair, and those edges number 13.
C1_ValidatorMatchesThirteenEdges ==
    /\ ValidatorCalled =>
           (call.result
                <=> <<call.args.from_step, call.args.to_step>> \in SpecEdges)
    /\ Cardinality(AcceptedPairs) = 13

\* C1 amended: validate_state_transition(from, to) is true exactly when
\* (from, to) is one of the edges of the specification's table, false for
\* every other pair, and those edges number 14.
C1_ValidatorMatchesTable ==
    /\ ValidatorCalled =>
           (call.result
                <=> <<call.args.from_step, call.args.to_step>> \in SpecEdges)
    /\ AcceptedPairs = SpecEdges
    /\ Cardinality(AcceptedPairs) = 14

\* C1 witness: the validator was called on an edge of the table and accepted it.
C1_Witness ==
    /\ ValidatorCalled
    /\ call.args = [from_step |-> "generating_advice", to_step |-> "error"]
    /\ call.result = TRUE

\* C2: from a step that is not a key of the table (an unknown string, and
\* "retry" in particular) the validator accepts no target; so once
\* current_step is "retry" no validated transition exists.
C2_NoTransitionFromUnknownStep ==
    /\ (ValidatorCalled /\ call.args.from_step \notin SpecTableKeys)
           => call.result = FALSE
    /\ state.current_step = "retry"
           => \A to_step \in StepInputs :
                  ~validate_state_transition(state.current_step, to_step)

\* C2 witness: the run stands at "retry" and the validator was asked for a way
\* back into the pipeline from "retry".
C2_Witness ==
    /\ state.current_step = "retry"
    /\ ValidatorCalled
    /\ call.args = [from_step |-> "retry", to_step |-> "parsing_resume"]
    /\ call.result = FALSE

\* C3: "completed" is absorbing: the validator rejects every pair
\* ("completed", X), "completed" itself included, and once current_step is
\* "completed" it never changes again.
C3_CompletedAbsorbing ==
    /\ []((ValidatorCalled /\ call.args.from_step = "completed")
              => call.result = FALSE)
    /\ [][state.current_step = "completed"
              => state'.current_step = "completed"]_vars

\* C3 witness: the run is at "completed" and the validator was called on
\* ("completed", "completed").
C3_Witness ==
    /\ state.current_step = "completed"
    /\ ValidatorCalled
    /\ call.args = [from_step |-> "completed", to_step |-> "completed"]
    /\ call.result = FALSE

\* C4 as stated: for every pair the validator accepts the progress of `from`
\* is at most that of `to`, so progress never drops along a validated run.
C4_ProgressNeverDrops ==
    /\ (ValidatorCalled /\ call.result)
           => get_state_progress_percentage(call.args.from_step)
                  <= get_state_progress_percentage(call.args.to_step)
    /\ \A i \in 1 .. Len(trace) - 1 :
           get_state_progress_percentage(trace[i])
               <= get_state_progress_percentage(trace[i + 1])

\* C4 amended: for every pair the validator accepts whose target is not
\* "error" the progress of `from` is at most that of `to`; along a validated
\* run progress drops only on a step into "error".
C4_ProgressDropsOnlyIntoError ==
    /\ (ValidatorCalled /\ call.result /\ call.args.to_step # "error")
           => get_state_progress_percentage(call.args.from_step)
                  <= get_state_progress_percentage(call.args.to_step)
    /\ \A i \in 1 .. Len(trace) - 1 :
           trace[i + 1] # "error"
               => get_state_progress_percentage(trace[i])
                      <= get_state_progress_percentage(trace[i + 1])

\* C4 witness: a run went through "error" and on to "completed", and the
\* validator accepted a pair that is not an escape to "error".
C4_Witness ==
    /\ trace = <<"initialized", "parsing_resume", "error", "completed">>
    /\ ValidatorCalled
    /\ call.args = [from_step |-> "jobs_found", to_step |-> "scoring_ats"]
    /\ call.result = TRUE

\* C5 as stated: in every state of a validated run current_step is one of the
\* ten step names listed for the progress calculator.
C5_StepIsListedForProgress ==
    state.current_step \in SpecProgressSteps

\* C5 amended: in every state of a validated run current_step is one of the
\* ten step names listed for the progress calculator or "retry".
C5_StepIsListedOrRetry ==
    state.current_step \in SpecProgressSteps \cup {"retry"}

\* C5 witness: a validated run has reached "retry".
C5_Witness ==
    /\ state.current_step = "retry"
    /\ Len(trace) > 1
    /\ trace[Len(trace) - 1] = "error"

\* C6 as stated: among the steps a validated run reaches, "completed" is the
\* only one from which no next step is permitted.
C6_CompletedSoleTerminal ==
    PermittedNext(state.current_step) = {} => state.current_step = "completed"

\* C6 amended: among the steps a validated run reaches, "completed" and
\* "retry" are the ones, and the only ones, from which no next step is
\* permitted.
C6_CompletedAndRetryTerminal ==
    PermittedNext(state.current_step) = {}
        <=> state.current_step \in {"completed", "retry"}

\* C6 witness: a validated run stands at "retry", with nothing permitted next.
C6_Witness ==
    /\ state.current_step = "retry"
    /\ trace[1] = "initialized"
    /\ PermittedNext(state.current_step) = {}

\* C7: "initialized" is the sole entry state: the factory starts every state
\* there, the validator accepts no pair (X, "initialized"), every step that
\* is the target of a transition is reachable from "initialized", and a run
\* that has left "initialized" never returns to it.
C7_InitializedSoleEntry ==
    /\ state.current_step = "initialized"
    /\ [](FactoryCalled => call.result.current_step = "initialized")
    /\ []((ValidatorCalled /\ call.args.to_step = "initialized")
              => call.result = FALSE)
    /\ [](/\ "initialized" \notin TargetSteps
          /\ TargetSteps \subseteq ReachableSteps)
    /\ [][state.current_step # "initialized"
              => state'.current_step # "initialized"]_vars

\* C7 witness: a run that began at "initialized" has left it, and the
\* validator was asked for the way back from where the run stands.
C7_Witness ==
    /\ trace[1] = "initialized"
    /\ state.current_step = "error"
    /\ ValidatorCalled
    /\ call.args = [from_step |-> "error", to_step |-> "initialized"]
    /\ call.result = FALSE

\* C8: create_initial_state returns a state whose five input fields are the
\* arguments, with current_step "initialized", is_complete false, every list
\* field empty, every optional output scalar absent, timestamp_started set,
\* timestamp_completed absent and workflow_version a fixed constant, whatever
\* the file path.
C8_FactoryOutput ==
    FactoryCalled =>
        LET s == call.result
            a == call.args
        IN  /\ s.uploaded_file_path = Some(a.uploaded_file_path)
            /\ s.target_job_title = a.target_job_title
            /\ s.target_industry = a.target_industry
            /\ s.target_location = a.target_location
            /\ s.experience_level = a.experience_level
            /\ s.current_step = "initialized"
            /\ s.is_complete = FALSE
            /\ \A l \in { s.messages, s.parsing_errors, s.matching_jobs,
                          s.job_search_errors, s.ats_scores,
                          s.improvement_recommendations, s.personalized_tips,
                          s.priority_improvements, s.errors, s.warnings } :
                   l = <<>>
            /\ \A o \in { s.resume_data, s.file_format, s.parsing_confidence,
                          s.search_query_used, s.average_ats_score,
                          s.best_ats_match, s.resume_enhancements,
                          s.processing_time_seconds, s.user_id } :
                   o = None
            /\ s.timestamp_started = Some(call.now)
            /\ s.timestamp_completed = None
            /\ s.workflow_version = Some("1.0.0")

\* C8 witness: the factory was called with a path no file validation would
\* accept and with every targeting field given.
C8_Witness ==
    /\ FactoryCalled
    /\ call.args.uploaded_file_path = "no/such/dir/cv.exe"
    /\ call.args.target_industry = Some("Finance")
    /\ call.result.timestamp_started # None

\* C9: get_state_progress_percentage returns the percentage the specification
\* lists for each of the ten step names, and 0 for every other string
\* ("retry" included).
C9_ProgressTable ==
    ProgressCalled => call.result = SpecProgress(call.args.current_step)

\* C9 witness: the calculator was called on "retry" and returned 0.
C9_Witness ==
    /\ ProgressCalled
    /\ call.args.current_step = "retry"
    /\ call.result = 0

\* C10: along the canonical success path every consecutive pair is accepted
\* by the validator and the progress percentage never decreases, starting at
\* 0 and ending at 100.
C10_CanonicalPath ==
    /\ \A i \in 1 .. Len(CanonicalPath) - 1 :
           /\ validate_state_transition(CanonicalPath[i], CanonicalPath[i + 1])
           /\ get_state_progress_percentage(CanonicalPath[i])
                  <= get_state_progress_percentage(CanonicalPath[i + 1])
    /\ get_state_progress_percentage(CanonicalPath[1]) = 0
    /\ get_state_progress_percentage(CanonicalPath[Len(CanonicalPath)]) = 100
    /\ (/\ Len(trace) <= Len(CanonicalPath)
        /\ trace = SubSeq(CanonicalPath, 1, Len(trace)))
           => get_state_progress_percentage(state.current_step)
                  = SpecProgress(CanonicalPath[Len(trace)])

\* C10 witness: a validated run has walked the whole canonical path.
C10_Witness ==
    /\ trace = CanonicalPath
    /\ state.current_step = "completed"

\* the canonical success path up to its k-th step
CanonicalPrefix(k) == SubSeq(CanonicalPath, 1, k)

\* the four steps in which a stage is at work
ProcessingSteps ==
    {"parsing_resume", "searching_jobs", "scoring_ats", "generating_advice"}

\* the places of a step in the run
Visits(step) == {i \in DOMAIN trace : trace[i] = step}

\* C11: the permitted transitions form a DAG: no non-empty sequence of
\* accepted transitions starts and ends at the same step, so no step is
\* visited twice in a validated run.
C11_NoCycle ==
    /\ \A step \in StepInputs :
           step \notin ReachableWithin(PermittedNext(step), Cardinality(TableSteps))
    /\ \A i \in DOMAIN trace, j \in DOMAIN trace : i # j => trace[i] # trace[j]

\* C11 witness: a validated run has gone through "error" to "retry", the
\* longest way there is.
C11_Witness ==
    /\ Len(trace) = 10
    /\ trace[9] = "error"
    /\ state.current_step = "retry"

\* C14: validate_state_transition and get_state_progress_percentage return a
\* value for every string input, leave the workflow state as it is, and
\* return the same result when called again with the same arguments.
C14_HelpersPureAndTotal ==
    /\ [](ValidatorCalled => call.result \in BOOLEAN)
    /\ [](ProgressCalled => call.result \in 0 .. 100)
    /\ [][call' # call => (state' = state /\ trace' = trace)]_vars
    /\ [][(call'.fn = call.fn /\ call'.args = call.args)
              => call'.result = call.result]_vars

\* C14 witness: the run has moved on, and the validator, called on two
\* unrecognised strings, returned False.
C14_Witness ==
    /\ state.current_step = "resume_parsed"
    /\ ValidatorCalled
    /\ call.args = [from_step |-> "", to_step |-> "unknown_step"]
    /\ call.result = FALSE

\* C19: every run terminates: the orchestrator, taking an accepted
\* transition whenever there is one, makes at most 9 transitions and comes
\* to rest at a step with nothing permitted next, "completed" or "retry".
C19_RunTerminates ==
    /\ [](Len(trace) - 1 <= 9)
    /\ [](PermittedNext(state.current_step) = {}
              => state.current_step \in {"completed", "retry"})
    /\ <>[](/\ PermittedNext(state.current_step) = {}
            /\ state.current_step \in {"completed", "retry"})

\* C19 witness: a run of 9 transitions has come to rest at "retry".
C19_Witness ==
    /\ Len(trace) - 1 = 9
    /\ state.current_step = "retry"
    /\ PermittedNext(state.current_step) = {}

\* C20: stages cannot be skipped or reordered: a validated run is a prefix of
\* the canonical path, or such a prefix ending at a processing step followed
\* by "error" and then by at most one of "retry" and "completed"; so
\* "completed" is reached without "error" only after resume_parsed,
\* jobs_found and ats_scored, in that order, and "error" is visited at most
\* once.
C20_StagesInOrder ==
    /\ \/ \E k \in 1 .. Len(CanonicalPath) : trace = CanonicalPrefix(k)
       \/ \E k \in 1 .. Len(CanonicalPath),
             tail \in {<<>>, <<"retry">>, <<"completed">>} :
               /\ CanonicalPath[k] \in ProcessingSteps
               /\ trace = CanonicalPrefix(k) \o <<"error">> \o tail
    /\ (state.current_step = "completed" /\ Visits("error") = {})
           => \E a \in Visits("resume_parsed"), b \in Visits("jobs_found"),
                 c \in Visits("ats_scored") : a < b /\ b < c
    /\ Cardinality(Visits("error")) <= 1

\* C20 witness: a run cut after scoring_ats went through "error" and was
\* marked "completed".
C20_Witness ==
    trace = CanonicalPrefix(6) \o <<"error", "completed">>

\* C13: mutable defaults are never shared: no two list fields of states
\* returned by separate factory calls (nor two of one state) are the same
\* list object, so appending to or clearing a list field of one state leaves
\* every field of the other as it was.
C13_NoSharedDefaults ==
    /\ [](\A k \in DOMAIN instances, j \in DOMAIN instances :
            \A f \in Range(ListFields), g \in Range(ListFields) :
                (k # j \/ f # g) => instances[k][f] # instances[j][g])
    /\ [][\A k \in DOMAIN instances, j \in DOMAIN instances :
              (k # j /\ View(k)' # View(k)) => View(j)' = View(j)]_vars

\* C13 witness: of two states, the first has had an item appended to its
\* errors and the second to its messages; neither shows the other's item.
C13_Witness ==
    /\ Len(instances) = 2
    /\ View(1).errors = <<"item">>
    /\ View(1).messages = <<>>
    /\ View(2).errors = <<>>
    /\ View(2).messages = <<"item">>

\* a collaborator function has been called, and it was fn
CollabCalled(fn) == call # None /\ call.fn = fn

\* a Python str, as the model writes one
IsStr(v) == DOMAIN v = {"template", "args"}

\* the input paths whose extension, lower-cased, is .pdf, .docx or .txt
SpecSupportedPaths ==
    { <<"c", "v", ".", "p", "d", "f">>, <<"C", "V", ".", "P", "D", "F">>,
      <<"a", ".", "d", "o", "c", "x">>, <<"n", ".", "t", "x", "t">>,
      <<"d", ".", "p", "d", "f">> }

\* the directory of the one input path that lies in a directory
SpecDirectories == { <<"d", ".", "p", "d", "f">> }

\* something is at path: the file of the environment, or the directory that
\* holds it
SpecExists(path) ==
    /\ env.file # None
    /\ \/ path = env.file_path
       \/ path \in SpecDirectories /\ env.file_path = path \o <<"/", "c", "v">>

\* the size in bytes of what is at path
SpecSize(path) ==
    IF path \in SpecDirectories THEN env.dir_size ELSE env.file.value.size

\* the file at the environment's path is there, is at most max_size_mb large
\* and has a supported extension
SpecFileValid(max_size_mb) ==
    /\ env.file # None
    /\ env.file.value.size <= max_size_mb * 1048576
    /\ env.file_path \in SpecSupportedPaths

\* the calls of name `name` among events
EventsNamed(events, name) == {i \in DOMAIN events : events[i].call = name}

\* C15: in chat_with_file the file is opened, and the model invoked, only
\* after validate_file has returned valid; when validation reports the file
\* invalid the method returns a "File validation error" string without
\* opening the file or invoking the model.
C15_ValidateBeforeRead ==
    CollabCalled("chat_with_file") =>
        LET ev == call.events
        IN  /\ \A i \in EventsNamed(ev, "open") \cup EventsNamed(ev, "llm.invoke") :
                   \E j \in EventsNamed(ev, "validate_file") :
                       j < i /\ ev[j].returned = TRUE
            /\ (env.import_ok /\ ~SpecFileValid(5))
                   => /\ EventsNamed(ev, "validate_file") # {}
                      /\ call.result.template = "File validation error: {error_msg}"
                      /\ EventsNamed(ev, "open") = {}
                      /\ EventsNamed(ev, "llm.invoke") = {}

\* C15 witness: chat_with_file validated CV.PDF, read it and got the model's
\* answer, in that order.
C15_Witness ==
    /\ CollabCalled("chat_with_file")
    /\ call.args.file_path = <<"C", "V", ".", "P", "D", "F">>
    /\ Len(call.events) = 3
    /\ call.events[1] = [call |-> "validate_file", returned |-> TRUE]
    /\ call.events[2] = [call |-> "open", returned |-> TRUE]
    /\ call.events[3].call = "llm.invoke"
    /\ call.result = AIMessage.content

\* C16: chat, chat_with_file, search_jobs, _search_with_tavily and
\* _search_with_serper let no exception out: whatever the model or the search
\* does, each returns a string.
C16_NoExceptionEscapes ==
    (call # None /\ call.fn \in { "chat", "chat_with_file", "search_jobs",
                                   "_search_with_tavily", "_search_with_serper" })
        => /\ call.raised = FALSE
           /\ IsStr(call.result)

\* C16 witness: with only the Serper wrapper configured, search_jobs met a
\* search that raised and returned the error as a string.
C16_Witness ==
    /\ CollabCalled("search_jobs")
    /\ ~env.tavily_client /\ env.serper_wrapper
    /\ env.search = "raises"
    /\ call.raised = FALSE
    /\ call.result.template = "Serper search error: {str(e)}"

\* C17: chat(prompt) returns the model's response text whenever the model
\* invocation succeeds, and an "Error with LLM" string only when it fails.
C17_ChatReturnsResponse ==
    CollabCalled("chat") =>
        /\ env.llm = "responds" => call.result = AIMessage.content
        /\ call.result.template = "Error with LLM: {str(e)}" => env.llm = "raises"

\* C18: validate_file returns (True, None) exactly when the file exists, is
\* at most max_size_mb large and has a lower-cased extension among .pdf,
\* .docx, .txt; otherwise (False, message) with a non-empty message naming
\* the first check that fails, in the order existence, size, extension; a
\* missing file is never sized.
C18_ValidateFile ==
    CollabCalled("validate_file") =>
        LET exists  == SpecExists(call.args.file_path)
            size_ok == exists /\ SpecSize(call.args.file_path) <= call.args.max_size_mb * 1048576
            ext_ok  == call.args.file_path \in SpecSupportedPaths
            failure == call.result[2].value.template
        IN  /\ call.result = <<TRUE, None>> <=> (exists /\ size_ok /\ ext_ok)
            /\ ~(exists /\ size_ok /\ ext_ok)
                   => /\ call.result[1] = FALSE
                      /\ call.result[2] # None
                      /\ failure # ""
            /\ ~exists
                   => /\ failure = "File does not exist"
                      /\ EventsNamed(call.events, "os.path.getsize") = {}
            /\ (exists /\ ~size_ok)
                   => failure = "File too large: {file_size_mb:.1f}MB (max: {max_size_mb}MB)"
            /\ (exists /\ size_ok /\ ~ext_ok)
                   => failure = "Unsupported file type: {file_ext}. Allowed: {allowed_extensions}"

\* C18 witness: CV.PDF of exactly 5 MB was validated against the default
\* limit and accepted.
C18_Witness ==
    /\ CollabCalled("validate_file")
    /\ call.args.file_path = <<"C", "V", ".", "P", "D", "F">>
    /\ call.args.max_size_mb = 5
    /\ env.file = Some([size |-> 5242880])
    /\ call.result = <<TRUE, None>>

\* C21: for every input string get_state_progress_percentage returns a value
\* in [0, 100], and it returns 100 if and only if the step is "completed"; so
\* in a validated run whose current step reports a progress of 100 the
\* validator accepts no further transition.
C21_FullProgressIsFinal ==
    /\ ProgressCalled
           => /\ call.result \in 0 .. 100
              /\ call.result = 100 <=> call.args.current_step = "completed"
    /\ get_state_progress_percentage(state.current_step) = 100
           => /\ state.current_step = "completed"
              /\ \A to_step \in StepInputs :
                     ~validate_state_transition(state.current_step, to_step)
              /\ \A to_step \in StepInputs : ~ENABLED Transition(to_step)

\* C21 witness: a validated run stands at "completed" and the calculator,
\* called on "completed", has returned 100.
C21_Witness ==
    /\ state.current_step = "completed"
    /\ Len(trace) > 1
    /\ ProgressCalled
    /\ call.args.current_step = "completed"
    /\ call.result = 100

====
